---- MODULE Spec2Model ----
(***************************************************************************)
(* rlbot-rust: the physics-tick poller (src/src/physicist.rs, Physicist)   *)
(* and the boundary interface (src/src/interface.rs, RLBotInterface).      *)
(*                                                                         *)
(* The engine is an external process: it owns a frame counter and answers  *)
(* every native call with a status or an optional buffer.  The Physicist   *)
(* keeps prev_ball_frame between calls.  The blocking calls go through     *)
(* spin, whose loop is modelled one step per statement (wait, f, check),   *)
(* so the engine can move between any two statements.                      *)
(*                                                                         *)
(* Time: Instants are only ever subtracted, so the clock is counted from   *)
(* the start of the current spin.  One clock unit is one rate-limiter      *)
(* interval; ratelimiter.wait() is the only statement that lets time pass. *)
(***************************************************************************)
EXTENDS Integers, Sequences, FiniteSets, TLC

\* ---- bounds -------------------------------------------------------------
MaxFrame == 3        \* the engine's frame counter ranges over 0..MaxFrame
MaxTimeout == 2      \* next_flat_with_timeout is called with 0..MaxTimeout
MaxLen == 2          \* command buffers have 0..MaxLen bytes

\* ---- program constants --------------------------------------------------
\* ratelimit::Builder::new().interval(Duration::from_millis(1)): the clock unit
Interval == 1
\* Physicist::DEFAULT_TIMEOUT = Duration::from_secs(10), on a clock whose unit
\* is the rate-limiter interval scaled to one second
DEFAULT_TIMEOUT == 10

Frames == 0..MaxFrame
NoFrame == -1

\* ffi::RLBotCoreStatus: one success variant, every other one a failure kind
Statuses == {"Success", "BufferOverfilled", "NotInitialized"}

\* Option<T>
None == [some |-> FALSE]
Some(x) == [some |-> TRUE, val |-> x]

\* ---- interface.rs -------------------------------------------------------

\* Result<(), RLBotError>
Ok == [ok |-> TRUE]
Err(status) == [ok |-> FALSE, status |-> status]

core_result_generic_error(status) ==
    IF status = "Success" THEN Ok ELSE Err("BufferOverfilled")

core_result(status) ==
    IF status = "Success" THEN Ok ELSE Err(status)

\* A serialized physics tick as the engine hands it out: the ball table may be
\* missing, and so may the ball's state; the frame counter lives in the state.
TickBuffers(frame) ==
    { [ball |-> "absent", frame |-> NoFrame],
      [ball |-> "nostate", frame |-> NoFrame],
      [ball |-> "state", frame |-> frame] }

\* flatbuffers::get_root::<flat::RigidBodyTick>(&buf).into(): the owned
\* game::RigidBodyTick, with ball: Option<..> and ball.state: Option<..>
DecodeTick(buf) ==
    [ball |-> IF buf.ball = "absent" THEN None
              ELSE Some([state |-> IF buf.ball = "nostate" THEN None
                                   ELSE Some([frame |-> buf.frame])])]

\* Option::map of the decoder over the native call's optional buffer
update_rigid_body_tick_flatbuffer_absent_is_default(dllBuf) ==
    IF dllBuf.some THEN Some(DecodeTick(dllBuf.val))
    ELSE Some(DecodeTick([ball |-> "state", frame |-> 0]))

update_rigid_body_tick_flatbuffer(dllBuf) ==
    IF dllBuf.some THEN Some(DecodeTick(dllBuf.val)) ELSE None

\* The other serialized records (field info, game tick packet, ball
\* prediction) are opaque here: a buffer is named by its payload, and the
\* decoded record owns a copy of it.
Payloads == 0..MaxLen
DecodeRecord(kind, buf) == [kind |-> kind, payload |-> buf]

\* self.dll.<query>().map(|buf| get_root::<..>(&buf).into())
BufferQuery(kind, dllBuf) ==
    IF dllBuf.some THEN Some(DecodeRecord(kind, dllBuf.val)) ELSE None

\* let status = (self.dll.<name>)(..); core_result(status): the native calls
\* made, in order, and the value returned
StatusCall(name, status) ==
    [dll |-> <<name>>, result |-> core_result(status)]

\* ---- physicist.rs -------------------------------------------------------

BallFrame_or_default(tick) ==
    IF tick.ball.some /\ tick.ball.val.state.some
    THEN Some(tick.ball.val.state.val.frame)
    ELSE Some(0)

\* tick.ball.as_ref().and_then(|b| b.state.as_ref()).map(|s| s.frame)
BallFrame(tick) ==
    IF tick.ball.some
    THEN (IF tick.ball.val.state.some
          THEN Some(tick.ball.val.state.val.frame) ELSE None)
    ELSE None

\* Body of try_next_flat as a function of prev_ball_frame and of what the
\* native call returned: the new prev_ball_frame and the returned Option.
TryNextFlat_greater(prev, dllBuf) ==
    LET r == update_rigid_body_tick_flatbuffer(dllBuf) IN
    IF r.some /\ BallFrame(r.val).some /\ BallFrame(r.val).val > prev
    THEN [prev |-> BallFrame(r.val).val, ret |-> Some(r.val)]
    ELSE [prev |-> prev, ret |-> None]

TryNextFlat_no_update(prev, dllBuf) ==
    LET r == update_rigid_body_tick_flatbuffer(dllBuf) IN
    IF r.some /\ BallFrame(r.val).some /\ BallFrame(r.val).val # prev
    THEN [prev |-> prev, ret |-> Some(r.val)]
    ELSE [prev |-> prev, ret |-> None]

TryNextFlat_update_first(prev, dllBuf) ==
    LET r == update_rigid_body_tick_flatbuffer(dllBuf) IN
    IF r.some /\ BallFrame(r.val).some
    THEN [prev |-> BallFrame(r.val).val, ret |-> None]
    ELSE [prev |-> prev, ret |-> None]

TryNextFlat(prev, dllBuf) ==
    LET r == update_rigid_body_tick_flatbuffer(dllBuf) IN
    IF r.some
    THEN LET ball_frame == BallFrame(r.val) IN
         IF ball_frame.some /\ ball_frame.val # prev
         THEN [prev |-> ball_frame.val, ret |-> Some(r.val)]
         ELSE [prev |-> prev, ret |-> None]
    ELSE [prev |-> prev, ret |-> None]

\* Body of try_next: status is what the native call returned, frame is the
\* Ball.State.Frame the engine wrote into the zeroed struct.
\* Result<Option<ffi::RigidBodyTick>, _>: err carries the status of the `?`.
TryNext_greater(prev, status, frame) ==
    IF ~core_result(status).ok
    THEN [prev |-> prev, err |-> Some(status), ret |-> None]
    ELSE IF frame > prev
         THEN [prev |-> frame, err |-> None, ret |-> Some(frame)]
         ELSE [prev |-> prev, err |-> None, ret |-> None]

TryNext_no_update(prev, status, frame) ==
    IF ~core_result(status).ok
    THEN [prev |-> prev, err |-> Some(status), ret |-> None]
    ELSE IF frame # prev
         THEN [prev |-> prev, err |-> None, ret |-> Some(frame)]
         ELSE [prev |-> prev, err |-> None, ret |-> None]

TryNext_swallow_error(prev, status, frame) ==
    IF ~core_result(status).ok
    THEN [prev |-> prev, err |-> None, ret |-> None]
    ELSE IF frame # prev
         THEN [prev |-> frame, err |-> None, ret |-> Some(frame)]
         ELSE [prev |-> prev, err |-> None, ret |-> None]

TryNext(prev, status, frame) ==
    IF ~core_result(status).ok
    THEN [prev |-> prev, err |-> Some(status), ret |-> None]
    ELSE IF frame # prev
         THEN [prev |-> frame, err |-> None, ret |-> Some(frame)]
         ELSE [prev |-> prev, err |-> None, ret |-> None]

\* spin's deadline test: elapsed > timeout
TimedOut_late(elapsed, timeout) == elapsed > timeout + Interval

TimedOut_at_deadline(elapsed, timeout) == elapsed >= timeout

TimedOut(elapsed, timeout) == elapsed > timeout

\* Physicist::new: prev_ball_frame: 0
InitialPrevBallFrame_none == 0 - 1

InitialPrevBallFrame == 0


\* ---- state --------------------------------------------------------------
VARIABLES
    engineFrame,      \* the engine's current frame counter
    prev_ball_frame,  \* Physicist.prev_ball_frame
    pc,               \* "idle", or the next statement of spin: "wait", "call", "check"
    op,               \* entry point of the current (or last) Physicist call
    timeout,          \* spin's timeout argument (0 outside spin's calls)
    now,              \* Instant::now() - start, in the current (or last) spin
    waited,           \* ratelimiter.wait() returned since the last native query
    ret,              \* what the last finished Physicist call returned
    query,            \* the last native physics-tick query and what it saw
    prevQueryFrame,   \* the frame counter seen by the query before it
    callStartPrev,    \* prev_ball_frame when the current (or last) call started
    callQueries,      \* native queries made by the current (or last) call
    callWaits,        \* ratelimiter.wait() calls made by it
    callChecks,       \* deadline checks made by it
    callSawDiffer,    \* spin went on after a query whose counter differed
    callSawNoBall,    \* spin went on after a record without ball state
    lastDelivered,    \* frame counter of the last delivered record
    prevDelivered,    \* frame counter of the delivered record before it
    polled,           \* the engine's current tick has been queried
    lockstep,         \* so far: +1 ticks only, one try_next_flat per tick, no other call
    lockDelivered,    \* frame counters delivered during the lockstep run
    dup,              \* the lockstep run delivered a frame counter twice
    ifaceCall,        \* the last direct RLBotInterface call
    physicists        \* two more Physicists on the same RLBot, polling concurrently

engine == <<engineFrame>>
poller == <<prev_ball_frame, pc, op, timeout, now, waited, ret>>
seen == <<query, prevQueryFrame, polled>>
callHist == <<callStartPrev, callQueries, callWaits, callChecks, callSawDiffer,
              callSawNoBall>>
delivHist == <<lastDelivered, prevDelivered>>
lockHist == <<lockstep, lockDelivered, dup>>
vars == <<engine, poller, seen, callHist, delivHist, lockHist, ifaceCall,
          physicists>>

Ops == {"try_next", "try_next_flat", "next", "next_flat", "next_flat_with_timeout"}

\* A Physicist call's return value, flattened: kind "Some" is a delivered
\* record (frame is its frame counter), "Err" a native status error,
\* "Timeout" spin's timeout error.
Ret(kind, frame, status) == [kind |-> kind, frame |-> frame, status |-> status]
NoQuery == [kind |-> "none", frame |-> NoFrame, status |-> "-", waited |-> FALSE,
            prev |-> 0]

\* The Physicists of the concurrent runs: each is a Physicist::new of its own,
\* here with the position inside try_next_flat ("got": the native call has
\* returned buf, the match on it is still to run) and what it last saw.
Pollers == {1, 2}
NewPhysicist ==
    [prev_ball_frame |-> InitialPrevBallFrame, pc |-> "idle", buf |-> None,
     ret |-> Ret("NoCall", NoFrame, "-"),
     q |-> [kind |-> "none", frame |-> NoFrame, prev |-> 0]]

\* Physicist::new, on an engine that may be at any tick
Init ==
    /\ engineFrame \in Frames
    /\ prev_ball_frame = InitialPrevBallFrame
    /\ pc = "idle"
    /\ op = "none"
    /\ timeout = 0
    /\ now = 0
    /\ waited = FALSE
    /\ ret = Ret("NoCall", NoFrame, "-")
    /\ query = NoQuery
    /\ prevQueryFrame = NoFrame
    /\ callStartPrev = InitialPrevBallFrame
    /\ callQueries = 0
    /\ callWaits = 0
    /\ callChecks = 0
    /\ callSawDiffer = FALSE
    /\ callSawNoBall = FALSE
    /\ lastDelivered = NoFrame
    /\ prevDelivered = NoFrame
    /\ polled = FALSE
    /\ lockstep = TRUE
    /\ lockDelivered = {}
    /\ dup = FALSE
    /\ ifaceCall = [name |-> "none"]
    /\ physicists = [p \in Pollers |-> NewPhysicist]

\* ---- bookkeeping shared by the actions ----------------------------------

\* the frame counter of a returned Option<game::RigidBodyTick>
FrameOf(opt) ==
    IF opt.some /\ BallFrame(opt.val).some THEN BallFrame(opt.val).val ELSE NoFrame

\* what a query saw, from the native call's optional buffer
SawFlat(dllBuf) ==
    IF ~dllBuf.some THEN "nobuf"
    ELSE IF dllBuf.val.ball = "absent" THEN "noball"
    ELSE IF dllBuf.val.ball = "nostate" THEN "nostate"
    ELSE "frame"

\* status is the native status of a struct query ("-" for a buffer query)
NoteQuery(kind, frame, status) ==
    /\ query' = [kind |-> kind, frame |-> frame, status |-> status,
                 waited |-> waited, prev |-> prev_ball_frame]
    /\ prevQueryFrame' = query.frame
    /\ waited' = FALSE
    /\ polled' = TRUE

\* a Physicist call begins: what spin keeps on its stack belongs to the call
CallStart(queries) ==
    /\ callStartPrev' = prev_ball_frame
    /\ callQueries' = queries
    /\ callWaits' = 0
    /\ callChecks' = 0
    /\ callSawDiffer' = FALSE
    /\ callSawNoBall' = FALSE

NoteDelivery(frame) ==
    IF frame = NoFrame
    THEN UNCHANGED delivHist
    ELSE /\ lastDelivered' = frame
         /\ prevDelivered' = lastDelivered

NoteLockstep(keeps, frame) ==
    /\ lockstep' = (lockstep /\ keeps)
    /\ IF lockstep /\ keeps
       THEN /\ lockDelivered' = (IF frame = NoFrame THEN lockDelivered
                                 ELSE lockDelivered \cup {frame})
            /\ dup' = (dup \/ frame \in lockDelivered)
       ELSE /\ lockDelivered' = {}
            /\ dup' = FALSE

\* ---- the engine ---------------------------------------------------------

EngineTick ==
    /\ engineFrame < MaxFrame
    /\ engineFrame' = engineFrame + 1
    /\ polled' = FALSE
    /\ NoteLockstep(polled, NoFrame)
    /\ UNCHANGED <<poller, query, prevQueryFrame, callHist, delivHist, ifaceCall, physicists>>

\* a match restart: the counter starts again from a smaller value
EngineRestart ==
    /\ \E f \in 0..(engineFrame - 1) : engineFrame' = f
    /\ polled' = FALSE
    /\ NoteLockstep(FALSE, NoFrame)
    /\ UNCHANGED <<poller, query, prevQueryFrame, callHist, delivHist, ifaceCall, physicists>>

\* ---- Physicist: the non-blocking calls ----------------------------------

DllTickResults == {None} \cup {Some(b) : b \in TickBuffers(engineFrame)}

try_next_flat ==
    /\ pc = "idle"
    /\ \E dllBuf \in DllTickResults :
         LET r == TryNextFlat(prev_ball_frame, dllBuf) IN
         /\ prev_ball_frame' = r.prev
         /\ ret' = (IF r.ret.some THEN Ret("Some", FrameOf(r.ret), "-")
                    ELSE Ret("None", NoFrame, "-"))
         /\ NoteQuery(SawFlat(dllBuf),
                      IF dllBuf.some THEN dllBuf.val.frame ELSE NoFrame, "-")
         /\ NoteDelivery(FrameOf(r.ret))
         /\ NoteLockstep(~polled /\ SawFlat(dllBuf) = "frame", FrameOf(r.ret))
    /\ op' = "try_next_flat"
    /\ CallStart(1)
    /\ timeout' = 0
    /\ now' = 0
    /\ UNCHANGED <<engine, pc, ifaceCall, physicists>>

try_next ==
    /\ pc = "idle"
    /\ \E status \in Statuses :
         LET r == TryNext(prev_ball_frame, status, engineFrame) IN
         /\ prev_ball_frame' = r.prev
         /\ ret' = (IF r.err.some THEN Ret("Err", NoFrame, r.err.val)
                    ELSE IF r.ret.some THEN Ret("Some", r.ret.val, "-")
                    ELSE Ret("None", NoFrame, "-"))
         /\ NoteQuery(IF status = "Success" THEN "frame" ELSE "error",
                      IF status = "Success" THEN engineFrame ELSE NoFrame, status)
         /\ NoteDelivery(IF r.ret.some THEN r.ret.val ELSE NoFrame)
         /\ NoteLockstep(FALSE, NoFrame)
    /\ op' = "try_next"
    /\ CallStart(1)
    /\ timeout' = 0
    /\ now' = 0
    /\ UNCHANGED <<engine, pc, ifaceCall, physicists>>

\* ---- Physicist: spin and the blocking calls -----------------------------

\* let start = Instant::now();
SpinStart(o, t) ==
    /\ pc = "idle"
    /\ pc' = "wait"
    /\ op' = o
    /\ timeout' = t
    /\ now' = 0
    /\ ret' = Ret("Pending", NoFrame, "-")
    /\ CallStart(0)
    /\ NoteLockstep(FALSE, NoFrame)
    /\ UNCHANGED <<engine, prev_ball_frame, waited, seen, delivHist, ifaceCall, physicists>>

next == SpinStart("next", DEFAULT_TIMEOUT)

next_flat == SpinStart("next_flat", DEFAULT_TIMEOUT)

next_flat_with_timeout == \E t \in 0..MaxTimeout : SpinStart("next_flat_with_timeout", t)

ratelimiter_wait_skipped ==
    /\ pc = "wait"
    /\ pc' = "call"
    /\ now' = now + Interval
    /\ UNCHANGED <<engine, prev_ball_frame, op, timeout, waited, ret, seen,
                   callHist, delivHist, lockHist, ifaceCall, physicists>>

\* self.ratelimiter.wait();
ratelimiter_wait ==
    /\ pc = "wait"
    /\ pc' = "call"
    /\ now' = now + Interval
    /\ waited' = TRUE
    /\ callWaits' = callWaits + 1
    /\ UNCHANGED <<engine, prev_ball_frame, op, timeout, ret, seen, callStartPrev,
                   callQueries, callChecks, callSawDiffer, callSawNoBall,
                   delivHist, lockHist, ifaceCall, physicists>>

\* if let Some(tick) = f(self)? { return Ok(tick); }   with f = try_next_flat
spin_try_next_flat ==
    /\ pc = "call"
    /\ op \in {"next_flat", "next_flat_with_timeout"}
    /\ \E dllBuf \in DllTickResults :
         LET r == TryNextFlat(prev_ball_frame, dllBuf)
             saw == SawFlat(dllBuf) IN
         /\ prev_ball_frame' = r.prev
         /\ NoteQuery(saw, IF dllBuf.some THEN dllBuf.val.frame ELSE NoFrame, "-")
         /\ NoteDelivery(FrameOf(r.ret))
         /\ IF r.ret.some
            THEN /\ pc' = "idle"
                 /\ ret' = Ret("Some", FrameOf(r.ret), "-")
                 /\ UNCHANGED <<callSawDiffer, callSawNoBall>>
            ELSE /\ pc' = "check"
                 /\ UNCHANGED ret
                 /\ callSawDiffer' = (callSawDiffer
                        \/ (saw = "frame" /\ dllBuf.val.frame # prev_ball_frame))
                 /\ callSawNoBall' = (callSawNoBall \/ saw \in {"noball", "nostate"})
    /\ NoteLockstep(FALSE, NoFrame)
    /\ callQueries' = callQueries + 1
    /\ UNCHANGED <<engine, op, timeout, now, callStartPrev, callWaits, callChecks,
                   ifaceCall, physicists>>

\* if let Some(tick) = f(self)? { return Ok(tick); }   with f = try_next
spin_try_next ==
    /\ pc = "call"
    /\ op = "next"
    /\ \E status \in Statuses :
         LET r == TryNext(prev_ball_frame, status, engineFrame) IN
         /\ prev_ball_frame' = r.prev
         /\ NoteQuery(IF status = "Success" THEN "frame" ELSE "error",
                      IF status = "Success" THEN engineFrame ELSE NoFrame, status)
         /\ NoteDelivery(IF r.ret.some THEN r.ret.val ELSE NoFrame)
         /\ IF r.err.some
            THEN /\ pc' = "idle"
                 /\ ret' = Ret("Err", NoFrame, r.err.val)
                 /\ UNCHANGED <<callSawDiffer, callSawNoBall>>
            ELSE IF r.ret.some
            THEN /\ pc' = "idle"
                 /\ ret' = Ret("Some", r.ret.val, "-")
                 /\ UNCHANGED <<callSawDiffer, callSawNoBall>>
            ELSE /\ pc' = "check"
                 /\ UNCHANGED ret
                 /\ callSawDiffer' = (callSawDiffer
                        \/ (status = "Success" /\ engineFrame # prev_ball_frame))
                 /\ UNCHANGED callSawNoBall
    /\ NoteLockstep(FALSE, NoFrame)
    /\ callQueries' = callQueries + 1
    /\ UNCHANGED <<engine, op, timeout, now, callStartPrev, callWaits, callChecks,
                   ifaceCall, physicists>>

spin_check_no_wait ==
    /\ pc = "check"
    /\ IF TimedOut(now, timeout)
       THEN /\ pc' = "idle"
            /\ ret' = Ret("Timeout", NoFrame, "-")
       ELSE /\ pc' = "call"
            /\ UNCHANGED ret
    /\ callChecks' = callChecks + 1
    /\ UNCHANGED <<engine, prev_ball_frame, op, timeout, now, waited, seen,
                   callStartPrev, callQueries, callWaits, callSawDiffer,
                   callSawNoBall, delivHist, lockHist, ifaceCall, physicists>>

\* let elapsed = Instant::now() - start; if elapsed > timeout { return Err(..) }
spin_check ==
    /\ pc = "check"
    /\ IF TimedOut(now, timeout)
       THEN /\ pc' = "idle"
            /\ ret' = Ret("Timeout", NoFrame, "-")
       ELSE /\ pc' = "wait"
            /\ UNCHANGED ret
    /\ callChecks' = callChecks + 1
    /\ UNCHANGED <<engine, prev_ball_frame, op, timeout, now, waited, seen,
                   callStartPrev, callQueries, callWaits, callSawDiffer,
                   callSawNoBall, delivHist, lockHist, ifaceCall, physicists>>

\* ---- RLBotInterface called directly ------------------------------------

\* arg is the length or index handed to the native call (a length of at most
\* MaxLen passes through `as c_int` unchanged); NoFrame where there is none
IfaceStatus(name, arg, status) ==
    /\ ifaceCall' = [name |-> name, arg |-> arg, status |-> status,
                     dll |-> StatusCall(name, status).dll,
                     result |-> StatusCall(name, status).result]
    /\ UNCHANGED <<engine, poller, seen, callHist, delivHist, lockHist, physicists>>

IfaceBuffer(name, dllBuf, result) ==
    /\ ifaceCall' = [name |-> name, arg |-> NoFrame, status |-> "-",
                     dll |-> <<name>>, dllBuf |-> dllBuf, result |-> result]
    /\ UNCHANGED <<engine, poller, seen, callHist, delivHist, lockHist, physicists>>

update_field_info ==
    \E status \in Statuses : IfaceStatus("update_field_info", NoFrame, status)

update_live_data_packet ==
    \E status \in Statuses : IfaceStatus("update_live_data_packet", NoFrame, status)

update_rigid_body_tick ==
    \E status \in Statuses : IfaceStatus("update_rigid_body_tick", NoFrame, status)

get_ball_prediction_struct ==
    \E status \in Statuses : IfaceStatus("get_ball_prediction_struct", NoFrame, status)

set_game_state ==
    \E len \in 0..MaxLen, status \in Statuses :
        IfaceStatus("set_game_state", len, status)

start_match ==
    \E status \in Statuses : IfaceStatus("start_match", NoFrame, status)

start_match_flatbuffer ==
    \E len \in 0..MaxLen, status \in Statuses :
        IfaceStatus("start_match_flatbuffer", len, status)

send_quick_chat ==
    \E len \in 0..MaxLen, status \in Statuses :
        IfaceStatus("send_quick_chat", len, status)

update_player_input ==
    \E player_index \in 0..MaxLen, status \in Statuses :
        IfaceStatus("update_player_input", player_index, status)

update_player_input_flatbuffer ==
    \E len \in 0..MaxLen, status \in Statuses :
        IfaceStatus("update_player_input_flatbuffer", len, status)

render_group ==
    \E len \in 0..MaxLen, status \in Statuses :
        IfaceStatus("render_group", len, status)

update_field_info_flatbuffer ==
    \E dllBuf \in {None} \cup {Some(b) : b \in Payloads} :
        IfaceBuffer("update_field_info_flatbuffer", dllBuf,
                    BufferQuery("FieldInfo", dllBuf))

update_live_data_packet_flatbuffer ==
    \E dllBuf \in {None} \cup {Some(b) : b \in Payloads} :
        IfaceBuffer("update_live_data_packet_flatbuffer", dllBuf,
                    BufferQuery("GameTickPacket", dllBuf))

iface_update_rigid_body_tick_flatbuffer ==
    \E dllBuf \in DllTickResults :
        IfaceBuffer("update_rigid_body_tick_flatbuffer", dllBuf,
                    update_rigid_body_tick_flatbuffer(dllBuf))

get_ball_prediction ==
    \E dllBuf \in {None} \cup {Some(b) : b \in Payloads} :
        IfaceBuffer("get_ball_prediction", dllBuf,
                    BufferQuery("BallPrediction", dllBuf))

StatusCalls ==
    {"update_field_info", "update_live_data_packet", "update_rigid_body_tick",
     "get_ball_prediction_struct", "set_game_state", "start_match",
     "start_match_flatbuffer", "send_quick_chat", "update_player_input",
     "update_player_input_flatbuffer", "render_group"}

BufferCalls ==
    {"update_field_info_flatbuffer", "update_live_data_packet_flatbuffer",
     "update_rigid_body_tick_flatbuffer", "get_ball_prediction"}

NextInterface ==
    \/ update_field_info
    \/ update_live_data_packet
    \/ update_rigid_body_tick
    \/ get_ball_prediction_struct
    \/ set_game_state
    \/ start_match
    \/ start_match_flatbuffer
    \/ send_quick_chat
    \/ update_player_input
    \/ update_player_input_flatbuffer
    \/ render_group
    \/ update_field_info_flatbuffer
    \/ update_live_data_packet_flatbuffer
    \/ iface_update_rigid_body_tick_flatbuffer
    \/ get_ball_prediction

\* the interface used on its own: it keeps no state between calls
InterfaceSpec == Init /\ [][NextInterface]_vars

\* ---- the Physicist against the engine -----------------------------------

\* ---- several Physicists on one RLBot -----------------------------------

\* `self.prev_ball_frame = ball_frame; return Some(tick)` and the `None` at the
\* end of try_next_flat: the Physicist p writes its own fields only
StoreOwn_shared(ps, p, rec) ==
    [o \in DOMAIN ps |->
        IF o = p THEN rec
        ELSE [ps[o] EXCEPT !.prev_ball_frame = rec.prev_ball_frame]]

StoreOwn(ps, p, rec) == [ps EXCEPT ![p] = rec]

\* try_next_flat of Physicist p, first statement: the native call returns
concurrent_query(p) ==
    /\ physicists[p].pc = "idle"
    /\ \E dllBuf \in DllTickResults :
         physicists' = [physicists EXCEPT ![p].pc = "got", ![p].buf = dllBuf]
    /\ UNCHANGED <<engine, poller, seen, callHist, delivHist, lockHist, ifaceCall>>

\* try_next_flat of Physicist p, the match on the ball frame and the return
concurrent_match(p) ==
    /\ physicists[p].pc = "got"
    /\ LET me == physicists[p]
           r == TryNextFlat(me.prev_ball_frame, me.buf) IN
       physicists' = StoreOwn(physicists, p,
           [prev_ball_frame |-> r.prev,
            pc |-> "idle",
            buf |-> None,
            ret |-> (IF r.ret.some THEN Ret("Some", FrameOf(r.ret), "-")
                     ELSE Ret("None", NoFrame, "-")),
            q |-> [kind |-> SawFlat(me.buf),
                   frame |-> (IF me.buf.some THEN me.buf.val.frame ELSE NoFrame),
                   prev |-> me.prev_ball_frame]])
    /\ UNCHANGED <<engine, poller, seen, callHist, delivHist, lockHist, ifaceCall>>

NextConcurrent ==
    \/ EngineTick
    \/ EngineRestart
    \/ \E p \in Pollers : concurrent_query(p)
    \/ \E p \in Pollers : concurrent_match(p)

\* two Physicists racing against the same engine, in any interleaving
ConcurrentSpec == Init /\ [][NextConcurrent]_vars

\* ---- one Physicist ------------------------------------------------------

Next ==
    \/ EngineTick
    \/ EngineRestart
    \/ try_next_flat
    \/ try_next
    \/ next
    \/ next_flat
    \/ next_flat_with_timeout
    \/ ratelimiter_wait
    \/ spin_try_next_flat
    \/ spin_try_next
    \/ spin_check

Spec == Init /\ [][Next]_vars

\* the statements of spin's loop
SpinStep == ratelimiter_wait \/ spin_try_next_flat \/ spin_try_next \/ spin_check

Blocking == {"next", "next_flat", "next_flat_with_timeout"}
BlockingFlat == {"next_flat", "next_flat_with_timeout"}
NonBlocking == {"try_next", "try_next_flat"}

\* a call has returned and none is in progress
Returned(ops) == pc = "idle" /\ op \in ops

\* ---- properties ---------------------------------------------------------

\* C1 as stated: while the engine's counter goes up by 1 per tick and
\* try_next_flat is called once per tick, every call returns the record of
\* its tick, and no frame counter is returned twice.
C1_OneRecordPerTick ==
    (lockstep /\ polled) =>
        /\ ret = Ret("Some", engineFrame, "-")
        /\ ~dup

\* C1 amended: the same, except that the tick whose counter is 0, the
\* initial prev_ball_frame, yields no record.
C1_OneRecordPerNonZeroTick ==
    (lockstep /\ polled) =>
        /\ ret = (IF engineFrame = 0 THEN Ret("None", NoFrame, "-")
                  ELSE Ret("Some", engineFrame, "-"))
        /\ ~dup

C1_Witness ==
    /\ lockstep /\ polled
    /\ Cardinality(lockDelivered) >= MaxFrame - 1
    /\ ret.kind = "Some"

\* try_next_flat called once for each counter of a list, starting from prev:
\* the delivered counter of each call, NoFrame for None
RECURSIVE PollOnceSeq(_, _)
PollOnceSeq(prev, frames) ==
    IF frames = <<>> THEN <<>>
    ELSE LET r == TryNextFlat(prev, Some([ball |-> "state", frame |-> Head(frames)]))
         IN <<FrameOf(r.ret)>> \o PollOnceSeq(r.prev, Tail(frames))

\* C2: when a try_next_flat query sees the frame counter that the query
\* before it saw, it returns None; from prev_ball_frame = 41 the engine's
\* answers 41, 41, 41, 42, 42 give None, None, None, Some(42), None.
C2_SameFrameNoRecord ==
    /\ (Returned({"try_next_flat"}) /\ query.kind = "frame"
            /\ prevQueryFrame = query.frame)
        => ret.kind = "None"
    /\ PollOnceSeq(41, <<41, 41, 41, 42, 42>>)
            = <<NoFrame, NoFrame, NoFrame, 42, NoFrame>>

C2_Witness ==
    /\ Returned({"try_next_flat"})
    /\ query.kind = "frame"
    /\ prevQueryFrame = query.frame
    /\ lastDelivered = query.frame
    /\ ret.kind = "None"

\* C3: whatever mix of blocking and non-blocking calls is made, two records
\* delivered one after the other never carry the same frame counter.
C3_NoRedelivery ==
    (lastDelivered # NoFrame /\ prevDelivered # NoFrame)
        => lastDelivered # prevDelivered

C3_Witness ==
    /\ Returned(Blocking)
    /\ ret.kind = "Some"
    /\ prevDelivered # NoFrame
    /\ callQueries >= 2
    /\ engineFrame = lastDelivered

\* C4: with one interval of elapsed time per loop iteration, a blocking flat
\* call is never found running past timeout + one interval and can always
\* take its next step, each iteration costing one interval; it returns
\* either the timeout error, at an elapsed time in (timeout, timeout +
\* Interval], or a record whose counter differs from prev_ball_frame, so
\* with no such frame it ends with the timeout error within the bound.
C4_TimeoutWithinBound ==
    /\ (pc # "idle" /\ op \in BlockingFlat) =>
          /\ now <= timeout + Interval
          /\ pc = "wait" => (now <= timeout /\ now = callQueries * Interval)
          /\ pc = "call" => now = (callQueries + 1) * Interval
          /\ pc = "check" => now = callQueries * Interval
          /\ ENABLED SpinStep
    /\ Returned(BlockingFlat) =>
          \/ /\ ret.kind = "Timeout"
             /\ now > timeout
             /\ now <= timeout + Interval
          \/ /\ ret.kind = "Some"
             /\ query.kind = "frame"
             /\ query.frame # callStartPrev

C4_Witness ==
    /\ Returned({"next_flat"})
    /\ ret.kind = "Timeout"
    /\ timeout = DEFAULT_TIMEOUT
    /\ now = DEFAULT_TIMEOUT + Interval

\* C5 as stated: a blocking call that delivers returns the record of its last
\* query, whose counter differs from prev_ball_frame, and every earlier query
\* of the call yielded no buffer or a counter equal to prev_ball_frame.
C5_FirstDifferingOnlyNoBufOrEqual ==
    (Returned(Blocking) /\ ret.kind = "Some") =>
        /\ query.kind = "frame"
        /\ ret.frame = query.frame
        /\ query.frame # callStartPrev
        /\ ~callSawDiffer
        /\ ~callSawNoBall

\* C5 amended: the same, where an earlier query may also have yielded a
\* record without ball state.
C5_FirstDiffering ==
    (Returned(Blocking) /\ ret.kind = "Some") =>
        /\ query.kind = "frame"
        /\ ret.frame = query.frame
        /\ query.frame # callStartPrev
        /\ ~callSawDiffer

C5_Witness ==
    /\ Returned(Blocking)
    /\ ret.kind = "Some"
    /\ callQueries >= 3
    /\ callSawNoBall

SawSmaller == query.kind = "frame" /\ query.frame < query.prev

\* C7 as stated: on a counter below prev_ball_frame, try_next and next
\* deliver nothing and leave prev_ball_frame alone, while try_next_flat
\* delivers the record and takes the smaller counter.
C7_LegacyStrictlyGreater ==
    /\ (Returned({"try_next"}) /\ SawSmaller) =>
          (ret.kind = "None" /\ prev_ball_frame = query.prev)
    /\ (op = "next" /\ callQueries >= 1 /\ SawSmaller) =>
          (ret.kind # "Some" /\ prev_ball_frame = query.prev)
    /\ (Returned({"try_next_flat"}) /\ SawSmaller) =>
          (ret = Ret("Some", query.frame, "-") /\ prev_ball_frame = query.frame)

\* C7 amended: both paths compare with "not equal": on a counter below
\* prev_ball_frame, try_next, next and try_next_flat all deliver the record
\* and take the smaller counter.
C7_BothNotEqual ==
    /\ (Returned({"try_next"}) /\ SawSmaller) =>
          (ret = Ret("Some", query.frame, "-") /\ prev_ball_frame = query.frame)
    /\ (op = "next" /\ callQueries >= 1 /\ SawSmaller) =>
          (pc = "idle" /\ ret = Ret("Some", query.frame, "-")
             /\ prev_ball_frame = query.frame)
    /\ (Returned({"try_next_flat"}) /\ SawSmaller) =>
          (ret = Ret("Some", query.frame, "-") /\ prev_ball_frame = query.frame)

C7_Witness ==
    /\ Returned({"try_next"})
    /\ SawSmaller
    /\ ret.kind = "Some"
    /\ prev_ball_frame < query.prev

\* C8: every status-returning interface call makes one native call and
\* returns Ok(()) on the success status, and otherwise an error carrying the
\* very status the native call returned.
C8_StatusMapping ==
    ifaceCall.name \in StatusCalls =>
        /\ ifaceCall.dll = <<ifaceCall.name>>
        /\ ifaceCall.status = "Success" => ifaceCall.result.ok
        /\ ifaceCall.status # "Success" =>
              (~ifaceCall.result.ok /\ ifaceCall.result.status = ifaceCall.status)

C8_Witness ==
    /\ ifaceCall.name = "render_group"
    /\ ifaceCall.status = "NotInitialized"
    /\ ifaceCall.result = Err("NotInitialized")

\* C9: a buffer query whose native call returns no buffer returns None, and
\* a try_next_flat whose native call returned no buffer returns None, never
\* an error, leaving prev_ball_frame alone.
C9_AbsenceIsNone ==
    /\ update_rigid_body_tick_flatbuffer(None) = None
    /\ \A kind \in {"FieldInfo", "GameTickPacket", "BallPrediction"} :
          BufferQuery(kind, None) = None
    /\ (Returned({"try_next_flat"}) /\ query.kind = "nobuf") =>
          (ret = Ret("None", NoFrame, "-") /\ prev_ball_frame = query.prev)

C9_Witness ==
    /\ Returned({"try_next_flat"})
    /\ query.kind = "nobuf"
    /\ ret.kind = "None"
    /\ engineFrame # prev_ball_frame

\* C10: a blocking call that times out leaves prev_ball_frame as it found
\* it, and the call made next behaves as on that value: a try_next or
\* try_next_flat delivers exactly when its query sees a counter different
\* from it, and a new blocking call starts from it.
C10_TimedOutUnchanged ==
    (pc = "idle" /\ ret.kind = "Timeout") => prev_ball_frame = callStartPrev

C10_NextCall ==
    (pc = "idle" /\ ret.kind = "Timeout") =>
        /\ ret'.kind \in {"Some", "None"} =>
              /\ (ret'.kind = "Some")
                    <=> (query'.kind = "frame" /\ query'.frame # callStartPrev)
              /\ ret'.kind = "Some" => ret'.frame = query'.frame
        /\ ret'.kind = "Pending" => callStartPrev' = callStartPrev

C10_TimeoutFatalToCallOnly ==
    /\ []C10_TimedOutUnchanged
    /\ [][C10_NextCall]_vars

C10_Witness ==
    /\ Returned(BlockingFlat)
    /\ ret.kind = "Timeout"
    /\ callStartPrev # 0
    /\ engineFrame # prev_ball_frame

\* the last query saw a frame counter different from prev_ball_frame
QueryFoundNew == query.kind = "frame" /\ query.frame # query.prev

\* C11: in next and try_next, a physics-tick call that returns a non-success
\* status ends the call at once with an error carrying that status: spin makes
\* no further query or deadline check, does not run to the timeout, and
\* prev_ball_frame is what it was when the call started.
C11_CallFailureSurfaced ==
    (op \in {"next", "try_next"} /\ callQueries >= 1 /\ query.kind = "error") =>
        /\ pc = "idle"
        /\ ret = Ret("Err", NoFrame, query.status)
        /\ query.status # "Success"
        /\ prev_ball_frame = callStartPrev
        /\ op = "next" =>
              /\ callWaits = callQueries
              /\ callChecks = callQueries - 1
              /\ now = callQueries * Interval

C11_Witness ==
    /\ Returned({"next"})
    /\ ret = Ret("Err", NoFrame, "NotInitialized")
    /\ callQueries = 2
    /\ now < timeout
    /\ engineFrame # prev_ball_frame

\* what Physicist p's last try_next_flat must have returned and stored, from
\* its own prev_ball_frame and what its own query saw
OwnOutcome(p) ==
    LET me == physicists[p] IN
    (me.pc = "idle" /\ me.q.kind # "none") =>
        IF me.q.kind = "frame" /\ me.q.frame # me.q.prev
        THEN me.ret = Ret("Some", me.q.frame, "-") /\ me.prev_ball_frame = me.q.frame
        ELSE me.ret = Ret("None", NoFrame, "-") /\ me.prev_ball_frame = me.q.prev

\* a step changes Physicist p's prev_ball_frame only if it is p's own match,
\* and p's own match changes nothing of the other Physicists
OwnStep(p) ==
    /\ physicists'[p].prev_ball_frame # physicists[p].prev_ball_frame =>
          (physicists[p].pc = "got" /\ physicists'[p].pc = "idle")
    /\ (physicists[p].pc = "got" /\ physicists'[p].pc = "idle") =>
          \A o \in Pollers \ {p} : physicists'[o] = physicists[o]

\* C12: under every interleaving of two Physicists' try_next_flat calls, each
\* is delivered the frame its query saw exactly when that frame differs from
\* its own prev_ball_frame, whatever the other one was delivered, and a
\* delivery changes the prev_ball_frame of the delivering Physicist only.
C12_IndependentPollers ==
    /\ [](\A p \in Pollers : OwnOutcome(p))
    /\ [][\A p \in Pollers : OwnStep(p)]_vars

C12_Witness ==
    /\ \A p \in Pollers : physicists[p].pc = "idle"
    /\ physicists[1].ret = Ret("Some", engineFrame, "-")
    /\ physicists[2].ret = Ret("Some", engineFrame, "-")
    /\ physicists[1].q.prev # physicists[2].q.prev

\* C13: in a blocking call every loop iteration is one ratelimiter.wait(),
\* then one native query, then one deadline check, in that order: at each
\* statement the waits, queries and checks made so far are those of the
\* finished iterations plus the part of the current one already run.
C13_WaitQueryCheck ==
    op \in Blocking =>
        /\ pc = "wait" => (callWaits = callQueries /\ callChecks = callQueries)
        /\ pc = "call" => (callWaits = callQueries + 1 /\ callChecks = callQueries
                           /\ waited)
        /\ pc = "check" => (callWaits = callQueries /\ callChecks = callQueries - 1)
        /\ pc = "idle" =>
              /\ callWaits = callQueries
              /\ callChecks = (IF ret.kind = "Timeout" THEN callQueries
                               ELSE callQueries - 1)
        /\ callQueries >= 1 => query.waited

C13_Witness ==
    /\ op \in Blocking
    /\ pc = "call"
    /\ callQueries = 2
    /\ callWaits = 3
    /\ callChecks = 2

\* C14: a blocking call returns the timeout error only right after a deadline
\* check that followed a query which delivered nothing, and only at an elapsed
\* time strictly above the timeout; every blocking call that has returned made
\* at least one query, also with timeout 0; and a query that finds a new
\* frame ends the call with that record whatever the elapsed time.
C14_TimeoutOnlyAfterEmptyQuery ==
    /\ (Returned(Blocking) /\ ret.kind = "Timeout") =>
          /\ now > timeout
          /\ ~QueryFoundNew
          /\ query.kind # "error"
          /\ callChecks = callQueries
    /\ Returned(Blocking) => callQueries >= 1
    /\ (op \in Blocking /\ callQueries >= 1 /\ QueryFoundNew) =>
          (pc = "idle" /\ ret = Ret("Some", query.frame, "-"))

C14_Witness ==
    /\ Returned(Blocking)
    /\ timeout = 0
    /\ now > timeout
    /\ callQueries = 1
    /\ ret.kind = "Some"

\* C15: prev_ball_frame is always the frame counter of the last delivered
\* record, 0 before the first delivery; a call that returned None, the
\* timeout error or a call error left it as it was when the call started.
C15_PrevIsLastDelivered ==
    /\ prev_ball_frame = (IF lastDelivered = NoFrame THEN 0 ELSE lastDelivered)
    /\ (pc = "idle" /\ ret.kind \in {"None", "Timeout", "Err"}) =>
          prev_ball_frame = callStartPrev
    /\ (pc = "idle" /\ ret.kind = "Some") => prev_ball_frame = ret.frame

C15_Witness ==
    /\ Returned(Blocking)
    /\ ret.kind = "Timeout"
    /\ prev_ball_frame = lastDelivered
    /\ prevDelivered # NoFrame
    /\ engineFrame # prev_ball_frame

\* C16: a new Physicist has prev_ball_frame = 0; as long as nothing has been
\* delivered, a query that sees frame counter 0 delivers nothing (try_next and
\* try_next_flat return None, a blocking call goes on to its timeout), and the
\* first record ever delivered has a non-zero frame counter.
C16_FrameZeroNotDelivered ==
    /\ op = "none" => prev_ball_frame = 0
    /\ (lastDelivered = NoFrame /\ callQueries >= 1 /\ query.kind = "frame"
            /\ query.frame = 0) =>
          IF op \in NonBlocking THEN ret = Ret("None", NoFrame, "-")
          ELSE (pc # "idle" \/ ret.kind = "Timeout")
    /\ (lastDelivered # NoFrame /\ prevDelivered = NoFrame) => lastDelivered # 0

C16_Witness ==
    /\ Returned(BlockingFlat)
    /\ ret.kind = "Timeout"
    /\ lastDelivered = NoFrame
    /\ query.kind = "frame"
    /\ query.frame = 0
    /\ engineFrame = 0

\* the last query returned a record whose ball, or ball state, is absent
SawNoBallState == query.kind \in {"noball", "nostate"}

\* C17: a try_next_flat whose record has no ball or no ball state returns None
\* and leaves prev_ball_frame alone; inside a blocking flat call such a query
\* never ends the call with a record, so a call that sees only such records
\* ends with the timeout error.
C17_NoBallStateIsUnchanged ==
    /\ (Returned({"try_next_flat"}) /\ SawNoBallState) =>
          (ret = Ret("None", NoFrame, "-") /\ prev_ball_frame = query.prev)
    /\ (op \in BlockingFlat /\ callQueries >= 1 /\ SawNoBallState) =>
          /\ prev_ball_frame = query.prev
          /\ pc # "idle" \/ ret.kind = "Timeout"

C17_Witness ==
    /\ Returned(BlockingFlat)
    /\ ret.kind = "Timeout"
    /\ SawNoBallState
    /\ callSawNoBall
    /\ ~callSawDiffer
    /\ callQueries >= 2
    /\ engineFrame # prev_ball_frame

====
